---- MODULE Spec2Model ----
(***************************************************************************)
(* A model of src/chat-statistic/stats.py: class ChatStatistics            *)
(* (rebuild_msg, msg_has_question, get_top_users, generate_wordcloud) and  *)
(* the __main__ entry point.                                               *)
(*                                                                         *)
(* A Python str is a sequence of one-character strings.  The Arabic        *)
(* question mark U+061F is written "AQ".  A dict key that may be absent is *)
(* a sequence of length 0 (absent) or 1 (present).                         *)
(***************************************************************************)
EXTENDS Integers, Sequences, FiniteSets, TLC

VARIABLES
    loaded,          \* the messages as json.load returned them (history)
    chat_data,       \* self.chat_data['messages']
    is_question,     \* get_top_users' local defaultdict(bool), as the last call left it
    top_users,       \* outcome of the last get_top_users call
    first_top_users, \* outcome of the first get_top_users call (history)
    has_question,    \* outcome of the last msg_has_question call
    text_contents,   \* text blob of the last generate_wordcloud call, before normalization
    hist,            \* which calls were made before (history)
    image_written,   \* wordcloud.png has been written by to_file
    printed,         \* __main__ has printed top_users
    pc,              \* position of __main__
    env,             \* which files exist: the chat export, stop_words.txt, the font
    rb_sub,          \* rebuild_msg alone: its argument
    rb_cut,          \* rebuild_msg alone: where the argument is split
    rb_out           \* rebuild_msg alone: the results

vars == <<loaded, chat_data, is_question, top_users, first_top_users, has_question,
          text_contents, hist, image_written, printed, pc, env, rb_sub, rb_cut, rb_out>>

-----------------------------------------------------------------------------
(* Bounds *)

MaxFrags == 3

MaxMsgs == 3

MaxObjMsgs == 2

MaxMainMsgs == 2

MaxTopN == 2

-----------------------------------------------------------------------------
(* Values *)

QMARK == "?"

AQMARK == "AQ"

Absent == <<>>

Some(v) == <<v>>

\* msg['text'] when it is a str
StrText(s) == [kind |-> "str", s |-> s, frags |-> <<>>]

\* msg['text'] when it is a list of sub-messages
ListText(f) == [kind |-> "list", s |-> <<>>, frags |-> f]

\* a message with no 'text' key
NoText == [kind |-> "absent", s |-> <<>>, frags |-> <<>>]

\* a sub-message that is a str
PlainFrag(s) == [isstr |-> TRUE, has_text |-> FALSE, text |-> s]

\* a sub-message that is a dict with a 'text' key
SpanFrag(s) == [isstr |-> FALSE, has_text |-> TRUE, text |-> s]

\* a sub-message that is a dict without a 'text' key
BareFrag == [isstr |-> FALSE, has_text |-> FALSE, text |-> <<>>]

SeqsUpTo(S, n) == UNION {[1..k -> S] : k \in 0..n}

-----------------------------------------------------------------------------
(* rebuild_msg *)

\* SubMsgText without the isinstance(sub_msg, str) branch
SubMsgTextDictOnly(sub_msg) == IF ~sub_msg.isstr /\ sub_msg.has_text THEN sub_msg.text ELSE <<>>

\* what one iteration of the loop appends to msg_text
SubMsgText(sub_msg) ==
    IF sub_msg.isstr THEN sub_msg.text
    ELSE IF sub_msg.has_text THEN sub_msg.text
    ELSE <<>>

RECURSIVE RebuildLoop(_, _)
RebuildLoop(msg_text, sub_messages) ==
    IF sub_messages = <<>> THEN msg_text
    ELSE RebuildLoop(msg_text \o SubMsgText(Head(sub_messages)), Tail(sub_messages))

rebuild_msg(sub_messages) == RebuildLoop(<<>>, sub_messages)

-----------------------------------------------------------------------------
(* hazm's tokenizers, as far as the characters of the model go *)

IsSpace(c) == c = " "

\* the characters of hazm's sentence pattern ([!\.\?...]+)[ \n]+
IsSentEnd(c) == c \in {"!", ".", QMARK, AQMARK}

\* the characters of the first alternative of hazm's word pattern
IsMark(c) == c \in {"!", QMARK, AQMARK}

RECURSIVE LStrip(_)
LStrip(s) == IF s # <<>> /\ IsSpace(Head(s)) THEN LStrip(Tail(s)) ELSE s

RECURSIVE RStrip(_)
RStrip(s) ==
    IF s # <<>> /\ IsSpace(s[Len(s)]) THEN RStrip(SubSeq(s, 1, Len(s) - 1)) ELSE s

Strip(s) == RStrip(LStrip(s))

KeepSentence(out, cur) == IF Strip(cur) = <<>> THEN out ELSE Append(out, Strip(cur))

\* a sentence ends at white space that follows a run of sentence-end characters
RECURSIVE SentScan(_, _, _, _)
SentScan(text, i, cur, out) ==
    IF i > Len(text) THEN KeepSentence(out, cur)
    ELSE IF IsSpace(text[i]) /\ i > 1 /\ IsSentEnd(text[i - 1])
         THEN SentScan(text, i + 1, <<>>, KeepSentence(out, cur))
         ELSE SentScan(text, i + 1, Append(cur, text[i]), out)

sent_tokenize(text) == SentScan(text, 1, <<>>, <<>>)

KeepToken(out, cur) == IF cur = <<>> THEN out ELSE Append(out, cur)

\* a run of ! ? AQ is one token, a "." is one token, white space separates
RECURSIVE WordScan(_, _, _, _)
WordScan(text, i, cur, out) ==
    IF i > Len(text) THEN KeepToken(out, cur)
    ELSE LET c == text[i] IN
         IF IsSpace(c) THEN WordScan(text, i + 1, <<>>, KeepToken(out, cur))
         ELSE IF c = "." THEN WordScan(text, i + 1, <<>>, Append(KeepToken(out, cur), <<c>>))
         ELSE IF cur # <<>> /\ IsMark(c) # IsMark(cur[1])
              THEN WordScan(text, i + 1, <<c>>, KeepToken(out, cur))
              ELSE WordScan(text, i + 1, Append(cur, c), out)

word_tokenize(text) == WordScan(text, 1, <<>>, <<>>)

\* c in s, for a one-character c
Contains(s, c) == \E i \in 1..Len(s) : s[i] = c

-----------------------------------------------------------------------------
(* get_top_users *)

SetItem(d, k, v) == [x \in DOMAIN d \cup {k} |-> IF x = k THEN v ELSE d[x]]

EmptyDict == [x \in {} |-> FALSE]

\* Reconstructed without the isinstance(msg['text'], str) test
ReconstructedAlways(msg) == [msg EXCEPT !.text = StrText(rebuild_msg(msg.text.frags))]

\* if not isinstance(msg['text'], str): msg['text'] = self.rebuild_msg(msg['text'])
Reconstructed(msg) ==
    IF msg.text.kind = "str" THEN msg
    ELSE [msg EXCEPT !.text = StrText(rebuild_msg(msg.text.frags))]

\* the loop over sentences of the first pass: some sentence has '?' or AQ
SentenceLoop(sentences) ==
    \E k \in 1..Len(sentences) :
        ~(~Contains(sentences[k], QMARK) /\ ~Contains(sentences[k], AQMARK))

\* FirstPass that splits the text it read before the reconstruction
RECURSIVE FirstPassStale(_, _, _)
FirstPassStale(msgs, i, isq) ==
    IF i > Len(msgs) THEN [msgs |-> msgs, isq |-> isq, ok |-> TRUE]
    ELSE IF msgs[i].text.kind = "absent" THEN [msgs |-> msgs, isq |-> isq, ok |-> FALSE]
    ELSE LET msg == Reconstructed(msgs[i])
             msgs2 == [msgs EXCEPT ![i] = msg]
             q == SentenceLoop(sent_tokenize(msgs[i].text.s))
         IN  IF q /\ msg.id = Absent THEN [msgs |-> msgs2, isq |-> isq, ok |-> FALSE]
             ELSE FirstPassStale(msgs2, i + 1,
                                 IF q THEN SetItem(isq, msg.id[1], TRUE) ELSE isq)

\* the first loop over the messages; ok is FALSE when msg['text'] or msg['id']
\* raises KeyError, and msgs keeps what was assigned until then
RECURSIVE FirstPass(_, _, _)
FirstPass(msgs, i, isq) ==
    IF i > Len(msgs) THEN [msgs |-> msgs, isq |-> isq, ok |-> TRUE]
    ELSE IF msgs[i].text.kind = "absent" THEN [msgs |-> msgs, isq |-> isq, ok |-> FALSE]
    ELSE LET msg == Reconstructed(msgs[i])
             msgs2 == [msgs EXCEPT ![i] = msg]
             q == SentenceLoop(sent_tokenize(msg.text.s))
         IN  IF q /\ msg.id = Absent THEN [msgs |-> msgs2, isq |-> isq, ok |-> FALSE]
             ELSE FirstPass(msgs2, i + 1, IF q THEN SetItem(isq, msg.id[1], TRUE) ELSE isq)

\* not msg.get('reply_to_message_id'): the key is absent, or its value is 0
NoReply(msg) == msg.reply = Absent \/ msg.reply[1] = 0

\* is_question[k] of a defaultdict(bool): a missing key is inserted as False
Lookup(isq, k) == IF k \in DOMAIN isq THEN isq ELSE SetItem(isq, k, FALSE)

\* the second loop over the messages; ok is FALSE when msg['from'] raises KeyError
RECURSIVE SecondPass(_, _, _, _)
SecondPass(msgs, i, isq, users) ==
    IF i > Len(msgs) THEN [isq |-> isq, users |-> users, ok |-> TRUE]
    ELSE LET msg == msgs[i] IN
         IF NoReply(msg) THEN SecondPass(msgs, i + 1, isq, users)
         ELSE LET isq2 == Lookup(isq, msg.reply[1]) IN
              IF isq2[msg.reply[1]] = FALSE THEN SecondPass(msgs, i + 1, isq2, users)
              ELSE IF msg.from = Absent THEN [isq |-> isq2, users |-> users, ok |-> FALSE]
              ELSE SecondPass(msgs, i + 1, isq2, Append(users, msg.from[1]))

\* Counter(users): the elements with their counts, in the order first met
RECURSIVE Counter(_, _)
Counter(users, items) ==
    IF users = <<>> THEN items
    ELSE LET hit == {k \in 1..Len(items) : items[k].key = Head(users)} IN
         Counter(Tail(users),
                 IF hit = {} THEN Append(items, [key |-> Head(users), count |-> 1])
                 ELSE [k \in 1..Len(items) |->
                          IF k \in hit THEN [items[k] EXCEPT !.count = @ + 1] ELSE items[k]])

\* InsertDesc of a sort that is not stable: before the items that count as much
RECURSIVE InsertDescUnstable(_, _)
InsertDescUnstable(sorted, item) ==
    IF sorted = <<>> THEN <<item>>
    ELSE IF Head(sorted).count > item.count
         THEN <<Head(sorted)>> \o InsertDescUnstable(Tail(sorted), item)
         ELSE <<item>> \o sorted

\* where sorted(..., reverse=True) puts an item: after the items that count as much
RECURSIVE InsertDesc(_, _)
InsertDesc(sorted, item) ==
    IF sorted = <<>> THEN <<item>>
    ELSE IF Head(sorted).count >= item.count
         THEN <<Head(sorted)>> \o InsertDesc(Tail(sorted), item)
         ELSE <<item>> \o sorted

RECURSIVE SortDesc(_, _)
SortDesc(items, sorted) ==
    IF items = <<>> THEN sorted ELSE SortDesc(Tail(items), InsertDesc(sorted, Head(items)))

\* Counter.most_common() with no n: every item, by count, descending, stable
most_common(items) == SortDesc(items, <<>>)

\* get_top_users that reconstructs copies and leaves the messages as they were
get_top_users_on_copy(msgs, top_n) ==
    LET p1 == FirstPass(msgs, 1, EmptyDict)
        p2 == SecondPass(p1.msgs, 1, p1.isq, <<>>)
    IN  [msgs |-> msgs, isq |-> IF p1.ok THEN p2.isq ELSE p1.isq, ok |-> p1.ok /\ p2.ok,
         value |-> IF p1.ok /\ p2.ok THEN most_common(Counter(p2.users, <<>>)) ELSE <<>>]

\* the whole method; top_n is a parameter the body never reads
get_top_users(msgs, top_n) ==
    LET p1 == FirstPass(msgs, 1, EmptyDict) IN
    IF ~p1.ok THEN [msgs |-> p1.msgs, isq |-> p1.isq, ok |-> FALSE, value |-> <<>>]
    ELSE LET p2 == SecondPass(p1.msgs, 1, p1.isq, <<>>) IN
         IF ~p2.ok THEN [msgs |-> p1.msgs, isq |-> p2.isq, ok |-> FALSE, value |-> <<>>]
         ELSE [msgs |-> p1.msgs, isq |-> p2.isq, ok |-> TRUE,
               value |-> most_common(Counter(p2.users, <<>>))]

-----------------------------------------------------------------------------
(* msg_has_question *)

\* the loop over sentences: "True" at the first sentence reached when the text
\* has both '?' and AQ, else the method ends without a return: None
HasQuestionLoop(text, sentences) ==
    IF \E k \in 1..Len(sentences) :
           ~(~Contains(text, QMARK) \/ ~Contains(text, AQMARK))
    THEN "True" ELSE "None"

msg_has_question(msg) ==
    IF msg.text.kind = "absent" THEN [msg |-> msg, ok |-> FALSE, value |-> "None"]
    ELSE LET m == Reconstructed(msg) IN
         [msg |-> m, ok |-> TRUE, value |-> HasQuestionLoop(m.text.s, sent_tokenize(m.text.s))]

-----------------------------------------------------------------------------
(* generate_wordcloud *)

\* self.stop_words, for a stop_words.txt that holds the one word b
stop_words == {<<"b">>}

\* FilterStop that filters nothing
FilterStopNone(tokens) == tokens

\* filter(lambda item: item not in self.stop_words, tokens)
FilterStop(tokens) == SelectSeq(tokens, LAMBDA item : item \notin stop_words)

\* ' '.join(tokens)
RECURSIVE JoinSpace(_)
JoinSpace(tokens) ==
    IF tokens = <<>> THEN <<>>
    ELSE IF Len(tokens) = 1 THEN tokens[1]
    ELSE tokens[1] \o <<" ">> \o JoinSpace(Tail(tokens))

\* the loop that builds text_contents; ok is FALSE when msg['text'] raises KeyError
RECURSIVE WordcloudLoop(_, _, _)
WordcloudLoop(msgs, i, contents) ==
    IF i > Len(msgs) THEN [ok |-> TRUE, value |-> contents]
    ELSE IF msgs[i].text.kind = "absent" THEN [ok |-> FALSE, value |-> contents]
    ELSE IF msgs[i].text.kind = "str"
         THEN WordcloudLoop(msgs, i + 1,
                  contents \o <<" ">> \o JoinSpace(FilterStop(word_tokenize(msgs[i].text.s))))
         ELSE WordcloudLoop(msgs, i + 1, contents)

\* WordCloud.generate raises ValueError for a text with no word in it
HasWord(contents) == \E i \in 1..Len(contents) : contents[i] \in {"a", "b"}

\* the whole method: the blob, then WordCloud(font_path=...).generate(...) and
\* to_file, which write wordcloud.png unless the loop raised, the font is missing
\* or the blob has no word
generate_wordcloud(msgs, font_ok) ==
    LET r == WordcloudLoop(msgs, 1, <<>>) IN
    [ok |-> r.ok /\ font_ok /\ HasWord(r.value), built |-> r.ok, contents |-> r.value]

-----------------------------------------------------------------------------
(* The inputs *)

Senders == {"A", "B"}

\* 'text' values of the messages of a chat export
TextQ == StrText(<<"a", QMARK>>)

TextPlain == StrText(<<"b", " ", "a">>)

TextListQ == ListText(<<SpanFrag(<<"a", " ">>), PlainFrag(<<"b", AQMARK>>)>>)

TextListPlain == ListText(<<PlainFrag(<<"a">>), BareFrag>>)

Message(id, text, from, reply) == [id |-> id, text |-> text, from |-> from, reply |-> reply]

\* id sequences of an export: unique, ascending, possibly sparse
AscendingIds(ids, n) ==
    {f \in [1..n -> ids] : \A i \in 1..n, j \in 1..n : i < j => f[i] < f[j]}

NoOutcome == [status |-> "none", top_n |-> 0, value |-> <<>>]

NoHasQuestion == [status |-> "none", idx |-> 0, value |-> "None"]

NoContents == [status |-> "none", value |-> <<>>]

NoHist == [mutators |-> FALSE, completed |-> FALSE, calls |-> 0, wc |-> "none"]

AllFiles == [chat_file |-> TRUE, stop_words |-> TRUE, font |-> TRUE]

NoRebuild == [done |-> FALSE, whole |-> <<>>, left |-> <<>>, right |-> <<>>]

\* everything but the transcript, for an object just constructed
Constructed(msgs) ==
    /\ loaded = msgs
    /\ chat_data = msgs
    /\ is_question = EmptyDict
    /\ top_users = NoOutcome
    /\ first_top_users = NoOutcome
    /\ has_question = NoHasQuestion
    /\ text_contents = NoContents
    /\ hist = NoHist
    /\ image_written = FALSE
    /\ printed = FALSE
    /\ pc = "api"
    /\ env = AllFiles
    /\ rb_out = NoRebuild

\* rebuild_msg is not run alone
NoRebuildRun == rb_sub = <<>> /\ rb_cut = 0

\* an object constructed from some transcript of at most n messages over the
\* given field values
ConstructedFrom(n, ids, texts, froms, replies) ==
    \E k \in 0..n : \E idf \in AscendingIds(ids, k) :
        \E b \in [1..k -> [text : texts, from : froms, reply : replies]] :
            /\ Constructed([i \in 1..k |->
                               Message(Some(idf[i]), b[i].text, b[i].from, b[i].reply)])
            /\ NoRebuildRun

-----------------------------------------------------------------------------
(* The methods of a constructed object, called in any order *)

\* what self.get_top_users(top_n=n) leaves behind; r is what the method computed
TopUsersEffect(n, r) ==
    /\ chat_data' = r.msgs
    /\ is_question' = r.isq
    /\ top_users' = [status |-> IF r.ok THEN "returned" ELSE "raised",
                     top_n |-> n, value |-> r.value]
    /\ first_top_users' = IF first_top_users.status = "none"
                          THEN [status |-> IF r.ok THEN "returned" ELSE "raised",
                                top_n |-> n, value |-> r.value]
                          ELSE first_top_users
    /\ hist' = [hist EXCEPT !.mutators = TRUE,
                            !.completed = @ \/ r.ok,
                            !.calls = IF @ < 2 THEN @ + 1 ELSE @]

\* WordcloudEffect of a method that creates wordcloud.png before it builds the blob
WordcloudEffectEarlyFile(r) ==
    /\ text_contents' = [status |-> IF r.built THEN "built" ELSE "raised",
                         value |-> r.contents]
    /\ image_written' = TRUE
    /\ hist' = [hist EXCEPT !.wc = IF ~hist.mutators THEN "fresh"
                                   ELSE IF hist.completed THEN "after_top_users"
                                   ELSE "other"]

\* what self.generate_wordcloud(...) leaves behind; r is what the method computed
WordcloudEffect(r) ==
    /\ text_contents' = [status |-> IF r.built THEN "built" ELSE "raised",
                         value |-> r.contents]
    /\ image_written' = (image_written \/ r.ok)
    /\ hist' = [hist EXCEPT !.wc = IF ~hist.mutators THEN "fresh"
                                   ELSE IF hist.completed THEN "after_top_users"
                                   ELSE "other"]

GetTopUsers(n) ==
    /\ pc = "api"
    /\ \E r \in {get_top_users(chat_data, n)} : TopUsersEffect(n, r)
    /\ UNCHANGED <<loaded, has_question, text_contents, image_written, printed, pc, env,
                   rb_sub, rb_cut, rb_out>>

MsgHasQuestion(i) ==
    /\ pc = "api"
    /\ i \in 1..Len(chat_data)
    /\ \E r \in {msg_has_question(chat_data[i])} :
           /\ chat_data' = [chat_data EXCEPT ![i] = r.msg]
           /\ has_question' = [status |-> IF r.ok THEN "returned" ELSE "raised",
                               idx |-> i, value |-> r.value]
    /\ hist' = [hist EXCEPT !.mutators = TRUE]
    /\ UNCHANGED <<loaded, is_question, top_users, first_top_users, text_contents,
                   image_written, printed, pc, env, rb_sub, rb_cut, rb_out>>

GenerateWordcloud ==
    /\ pc = "api"
    /\ \E r \in {generate_wordcloud(chat_data, env.font)} : WordcloudEffect(r)
    /\ UNCHANGED <<loaded, chat_data, is_question, top_users, first_top_users,
                   has_question, printed, pc, env, rb_sub, rb_cut, rb_out>>

\* top_n=10 of the signature
DefaultTopN == 10

ObjTexts == {TextQ, TextPlain, TextListQ, TextListPlain}

Init ==
    ConstructedFrom(MaxObjMsgs, 1..MaxObjMsgs, ObjTexts, {Some(s) : s \in Senders},
                    {Absent, Some(1)})

Next ==
    \/ GetTopUsers(DefaultTopN)
    \/ \E i \in 1..MaxObjMsgs : MsgHasQuestion(i)
    \/ GenerateWordcloud

Spec == Init /\ [][Next]_vars

-----------------------------------------------------------------------------
(* get_top_users over transcripts of plain-string messages, with any top_n *)

TopIds == {0, 1, 2, 3}

TopReplies == {Absent, Some(0), Some(1), Some(2)}

InitTop ==
    ConstructedFrom(MaxMsgs, TopIds, {TextQ, TextPlain}, {Some(s) : s \in Senders},
                    TopReplies)

\* one call on each object
NextTop == \E n \in 0..MaxTopN : top_users.status = "none" /\ GetTopUsers(n)

SpecTop == InitTop /\ [][NextTop]_vars

-----------------------------------------------------------------------------
(* msg_has_question over one message with any short text *)

MaxTextLen == 3

HasQChars == {"a", " ", QMARK, AQMARK}

\* the text as a str, and the same text as a list of one dict
HasQTexts ==
    UNION {{StrText(t), ListText(<<SpanFrag(t)>>)} : t \in SeqsUpTo(HasQChars, MaxTextLen)}

InitHasQ ==
    /\ \E t \in HasQTexts : Constructed(<<Message(Some(1), t, Some("A"), Absent)>>)
    /\ NoRebuildRun

NextHasQ == MsgHasQuestion(1)

SpecHasQ == InitHasQ /\ [][NextHasQ]_vars

-----------------------------------------------------------------------------
(* rebuild_msg alone *)

FragChoices == {PlainFrag(<<"a">>), PlainFrag(<<>>), SpanFrag(<<"b", QMARK>>), BareFrag}

InitRebuild ==
    /\ Constructed(<<>>)
    /\ \E sub \in SeqsUpTo(FragChoices, MaxFrags) : \E cut \in 0..Len(sub) :
           /\ rb_sub = sub
           /\ rb_cut = cut

\* rebuild_msg on the argument and on its two parts
RebuildMsg ==
    /\ ~rb_out.done
    /\ rb_out' = [done |-> TRUE,
                  whole |-> rebuild_msg(rb_sub),
                  left |-> rebuild_msg(SubSeq(rb_sub, 1, rb_cut)),
                  right |-> rebuild_msg(SubSeq(rb_sub, rb_cut + 1, Len(rb_sub)))]
    /\ UNCHANGED <<loaded, chat_data, is_question, top_users, first_top_users, has_question,
                   text_contents, hist, image_written, printed, pc, env, rb_sub, rb_cut>>

NextRebuild == RebuildMsg

SpecRebuild == InitRebuild /\ [][NextRebuild]_vars

-----------------------------------------------------------------------------
(* __main__ *)

\* top_n=5 of the call in __main__
MainTopN == 5

MainTexts == {NoText, TextQ, TextListPlain}

\* the messages of result.json, some without 'id', 'text' or 'from'
MainTranscripts(k) ==
    [1..k -> [id : {Absent, Some(1)}, text : MainTexts,
              from : {Absent, Some("A")}, reply : {Absent, Some(1)}]]

InitMain ==
    /\ \E k \in 0..MaxMainMsgs : \E msgs \in MainTranscripts(k) : loaded = msgs
    /\ \E e \in [chat_file : BOOLEAN, stop_words : BOOLEAN, font : BOOLEAN] : env = e
    /\ chat_data = <<>>
    /\ is_question = EmptyDict
    /\ top_users = NoOutcome
    /\ first_top_users = NoOutcome
    /\ has_question = NoHasQuestion
    /\ text_contents = NoContents
    /\ hist = NoHist
    /\ image_written = FALSE
    /\ printed = FALSE
    /\ pc = "start"
    /\ rb_out = NoRebuild
    /\ NoRebuildRun

\* chat_stats = ChatStatistics(chat_json_file=...): open() raises when the export
\* or stop_words.txt is missing
MainConstruct ==
    /\ pc = "start"
    /\ IF env.chat_file /\ env.stop_words
       THEN chat_data' = loaded /\ pc' = "constructed"
       ELSE chat_data' = chat_data /\ pc' = "aborted"
    /\ UNCHANGED <<loaded, is_question, top_users, first_top_users, has_question,
                   text_contents, hist, image_written, printed, env, rb_sub, rb_cut, rb_out>>

\* chat_stats.generate_wordcloud(...)
MainWordcloud ==
    /\ pc = "constructed"
    /\ \E r \in {generate_wordcloud(chat_data, env.font)} :
           /\ WordcloudEffect(r)
           /\ pc' = IF r.ok THEN "wordcloud" ELSE "aborted"
    /\ UNCHANGED <<loaded, chat_data, is_question, top_users, first_top_users,
                   has_question, printed, env, rb_sub, rb_cut, rb_out>>

\* top_users = chat_stats.get_top_users(top_n=5)
MainTopUsers ==
    /\ pc = "wordcloud"
    /\ \E r \in {get_top_users(chat_data, MainTopN)} :
           /\ TopUsersEffect(MainTopN, r)
           /\ pc' = IF r.ok THEN "top_users" ELSE "aborted"
    /\ UNCHANGED <<loaded, has_question, text_contents, image_written, printed, env,
                   rb_sub, rb_cut, rb_out>>

\* print(top_users); print('Done!')
MainPrint ==
    /\ pc = "top_users"
    /\ printed' = TRUE
    /\ pc' = "done"
    /\ UNCHANGED <<loaded, chat_data, is_question, top_users, first_top_users,
                   has_question, text_contents, hist, image_written, env,
                   rb_sub, rb_cut, rb_out>>

NextMain == MainConstruct \/ MainWordcloud \/ MainTopUsers \/ MainPrint

SpecMain == InitMain /\ [][NextMain]_vars

-----------------------------------------------------------------------------
(* What the claims say, stated apart from the methods *)

\* what a fragment contributes: a plain string itself, a record its 'text' if it
\* has one
Contribution(f) == IF f.isstr \/ f.has_text THEN f.text ELSE <<>>

\* the contributions of the fragments, in order
RECURSIVE Flat(_)
Flat(sub) ==
    IF Len(sub) = 0 THEN <<>>
    ELSE Flat(SubSeq(sub, 1, Len(sub) - 1)) \o Contribution(sub[Len(sub)])

\* the reconstructed text of a message
FullText(msg) == IF msg.text.kind = "str" THEN msg.text.s ELSE Flat(msg.text.frags)

\* some sentence of the reconstructed text has a question mark of either kind
IsQuestion(msg) ==
    \E k \in 1..Len(sent_tokenize(FullText(msg))) :
        \E c \in 1..Len(sent_tokenize(FullText(msg))[k]) :
            sent_tokenize(FullText(msg))[k][c] \in {QMARK, AQMARK}

\* message i carries a reply_to_message_id whose target is the id of a question
RepliesToQuestion(msgs, i) ==
    /\ msgs[i].reply # Absent
    /\ \E j \in 1..Len(msgs) : msgs[j].id = msgs[i].reply /\ IsQuestion(msgs[j])

\* the count the mapping gives sender s, 0 when s is no key of it
CountOf(value, s) ==
    IF \E k \in 1..Len(value) : value[k].key = s
    THEN value[CHOOSE k \in 1..Len(value) : value[k].key = s].count
    ELSE 0

\* C6: rebuild_msg of a sequence is rebuild_msg of its first part followed by
\* rebuild_msg of the rest, and it is the fragments' contributions in order (a
\* plain string itself, a record its 'text' if present, nothing otherwise; the
\* empty sequence gives the empty string).
C6_RebuildSplits ==
    rb_out.done =>
        /\ rb_out.whole = rb_out.left \o rb_out.right
        /\ rb_out.whole = Flat(rb_sub)
        /\ rb_sub = <<>> => rb_out.whole = <<>>

C6_Witness ==
    /\ rb_out.done
    /\ rb_cut \in 1..(Len(rb_sub) - 1)
    /\ rb_out.left # <<>>
    /\ rb_out.right # <<>>
    /\ \E i \in 1..Len(rb_sub) : rb_sub[i] = BareFrag
    /\ \E i \in 1..Len(rb_sub) : rb_sub[i].isstr /\ rb_sub[i].text # <<>>
    /\ \E i \in 1..Len(rb_sub) : rb_sub[i].has_text

\* C1: the mapping get_top_users(top_n) returns has at most top_n entries.
C1_AtMostTopN ==
    top_users.status = "returned" => Len(top_users.value) <= top_users.top_n

\* C2: the count of a sender is the number of that sender's messages that carry
\* a reply_to_message_id whose target is the id of a question of the transcript;
\* no other message adds to a count.
C2_CountsRepliesToQuestions ==
    top_users.status = "returned" =>
        \A s \in Senders :
            CountOf(top_users.value, s) =
                Cardinality({i \in 1..Len(loaded) :
                                loaded[i].from = Some(s) /\ RepliesToQuestion(loaded, i)})

\* C3: msg_has_question classifies a message as a question (returns True) if and
\* only if some sentence of its reconstructed text has '?' or the Arabic question
\* mark; one mark of either kind is enough.
C3_HasQuestionIff ==
    has_question.status = "returned" =>
        (has_question.value = "True" <=> IsQuestion(loaded[has_question.idx]))

\* the place in the transcript of the first reply the method counts for sender s
FirstCounted(msgs, s) ==
    CHOOSE i \in 1..Len(msgs) :
        /\ msgs[i].from = Some(s) /\ ~NoReply(msgs[i]) /\ RepliesToQuestion(msgs, i)
        /\ \A j \in 1..(i - 1) :
               ~(msgs[j].from = Some(s) /\ ~NoReply(msgs[j]) /\ RepliesToQuestion(msgs, j))

\* C4: in the returned mapping the counts never increase, and senders with equal
\* counts come in the order of their first counted replies.
C4_Ordered ==
    top_users.status = "returned" =>
        \A i \in 1..Len(top_users.value) : \A j \in 1..Len(top_users.value) :
            i < j =>
                /\ top_users.value[i].count >= top_users.value[j].count
                /\ top_users.value[i].count = top_users.value[j].count =>
                       FirstCounted(loaded, top_users.value[i].key)
                           < FirstCounted(loaded, top_users.value[j].key)

\* two senders with equal counts, in a transcript of the greatest length
C4_Witness ==
    /\ top_users.status = "returned"
    /\ Len(top_users.value) = 2
    /\ top_users.value[1].count = top_users.value[2].count
    /\ Len(loaded) = MaxMsgs

\* C5 as written: a run that fails has written no wordcloud.png and printed nothing.
C5_NoPartialOutput == pc = "aborted" => ~image_written /\ ~printed

\* C5 as amended: a run that fails prints nothing; it has written wordcloud.png
\* exactly when the failure is get_top_users', which runs after the image is
\* written; a result is printed only after the image was written.
C5_FailureAfterImage ==
    /\ pc = "aborted" => ~printed
    /\ pc = "aborted" /\ top_users.status = "none" => ~image_written
    /\ pc = "aborted" /\ top_users.status # "none" =>
           image_written /\ top_users.status = "raised"
    /\ printed => image_written /\ top_users.status = "returned"

\* get_top_users failed on a counted reply with no 'from', after the image
C5_Witness ==
    /\ pc = "aborted"
    /\ image_written
    /\ top_users.status = "raised"
    /\ \E i \in 1..Len(loaded) : loaded[i].from = Absent /\ RepliesToQuestion(loaded, i)

\* C7: every call of get_top_users on an object gives what the first call gave,
\* whatever was called on the object in between.
C7_Deterministic ==
    top_users.status # "none" =>
        /\ top_users.status = first_top_users.status
        /\ top_users.value = first_top_users.value

\* a second call, after the first one replaced the text of a question that has a
\* counted reply
C7_Witness ==
    /\ hist.calls = 2
    /\ top_users.status = "returned"
    /\ \E i \in 1..Len(loaded) :
           /\ RepliesToQuestion(loaded, i)
           /\ \E j \in 1..Len(loaded) :
                  loaded[j].id = loaded[i].reply /\ loaded[j].text.kind = "list"

\* C8 as written: no message ever differs from what was loaded.
C8_NeverMutated == chat_data = loaded

\* the ids of the questions of a transcript
QuestionIds(msgs) == {msgs[j].id[1] : j \in {k \in 1..Len(msgs) : IsQuestion(msgs[k])}}

\* C8 as amended: 'id', 'from', 'reply_to_message_id' and every plain-string
\* 'text' stay as loaded; a 'text' loaded as a fragment sequence is still that
\* sequence or is its reconstruction; before any msg_has_question or get_top_users
\* call (so after generate_wordcloud calls alone) nothing differs; the
\* QuestionIndex a get_top_users call leaves holds True for the ids of the
\* questions and False for the other ids that replies name.
C8_OnlyTextReconstructed ==
    /\ Len(chat_data) = Len(loaded)
    /\ \A i \in 1..Len(loaded) :
           /\ chat_data[i].id = loaded[i].id
           /\ chat_data[i].from = loaded[i].from
           /\ chat_data[i].reply = loaded[i].reply
           /\ loaded[i].text.kind = "str" => chat_data[i].text = loaded[i].text
           /\ loaded[i].text.kind = "list" =>
                  chat_data[i].text \in {loaded[i].text, StrText(Flat(loaded[i].text.frags))}
    /\ ~hist.mutators => chat_data = loaded
    /\ top_users.status = "none" => DOMAIN is_question = {}
    /\ top_users.status = "returned" =>
           /\ {k \in DOMAIN is_question : is_question[k]} = QuestionIds(loaded)
           /\ {k \in DOMAIN is_question : ~is_question[k]} =
                  {loaded[i].reply[1] : i \in {k \in 1..Len(loaded) : ~NoReply(loaded[k])}}
                      \ QuestionIds(loaded)

\* msg_has_question has replaced the text of one message and not of another
C8_Witness ==
    \E i \in 1..Len(loaded) : \E j \in 1..Len(loaded) :
        /\ loaded[i].text.kind = "list" /\ chat_data[i].text.kind = "str"
        /\ loaded[j].text.kind = "list" /\ chat_data[j].text.kind = "list"
        /\ top_users.status = "none"

\* the tokens of a text that are no stop words
RECURSIVE Kept(_)
Kept(tokens) ==
    IF tokens = <<>> THEN <<>>
    ELSE IF Head(tokens) \in stop_words THEN Kept(Tail(tokens))
    ELSE <<Head(tokens)>> \o Kept(Tail(tokens))

\* a leading space, then the tokens with one space between neighbours
RECURSIVE Block(_)
Block(tokens) ==
    IF tokens = <<>> THEN <<" ">>
    ELSE IF Len(tokens) = 1 THEN <<" ">> \o tokens[1]
    ELSE Block(SubSeq(tokens, 1, Len(tokens) - 1)) \o <<" ">> \o tokens[Len(tokens)]

\* in transcript order, one block for each message text(i) gives a string for
RECURSIVE Blob(_, _, _)
Blob(msgs, n, plain) ==
    IF n = 0 THEN <<>>
    ELSE Blob(msgs, n - 1, plain) \o
         (IF n \in plain THEN Block(Kept(word_tokenize(FullText(msgs[n])))) ELSE <<>>)

LoadedPlain == {i \in 1..Len(loaded) : loaded[i].text.kind = "str"}

NowPlain == {i \in 1..Len(chat_data) : chat_data[i].text.kind = "str"}

\* C9 as written: the blob has one block for each message loaded with a
\* plain-string text, and nothing for a message loaded with a fragment sequence.
C9_BlobOfLoadedStrings ==
    text_contents.status = "built" =>
        text_contents.value = Blob(loaded, Len(loaded), LoadedPlain)

\* C9 as amended: the blob a generate_wordcloud call builds has one block for each
\* message whose text is a plain string when the call is made, loaded so or
\* reconstructed since, and nothing for a message whose text is a fragment
\* sequence at that time.
C9_BlobOfCurrentStrings ==
    [][GenerateWordcloud /\ text_contents'.status = "built" =>
          text_contents'.value = Blob(loaded, Len(loaded), NowPlain)]_vars

\* a blob built when one fragment-sequence message was reconstructed and another
\* was not
C9_Witness ==
    /\ text_contents.status = "built"
    /\ hist.wc = "other"
    /\ top_users.status = "none"
    /\ text_contents.value = Blob(loaded, Len(loaded), NowPlain)
    /\ \E i \in 1..Len(loaded) : \E j \in 1..Len(loaded) :
           /\ loaded[i].text.kind = "list" /\ chat_data[i].text.kind = "str"
           /\ loaded[j].text.kind = "list" /\ chat_data[j].text.kind = "list"
           /\ Flat(loaded[i].text.frags) # <<>>

\* C10: once get_top_users has completed every text is a plain string, the
\* reconstruction of what was loaded; a generate_wordcloud call made after that
\* skips no message, and one made before any get_top_users or msg_has_question call
\* skips exactly the messages loaded with a fragment sequence.
C10_OrderOfCalls ==
    /\ hist.completed =>
           \A i \in 1..Len(loaded) : chat_data[i].text = StrText(FullText(loaded[i]))
    /\ text_contents.status = "built" /\ hist.wc = "after_top_users" =>
           text_contents.value = Blob(loaded, Len(loaded), 1..Len(loaded))
    /\ text_contents.status = "built" /\ hist.wc = "fresh" =>
           text_contents.value = Blob(loaded, Len(loaded), LoadedPlain)

\* a blob built after get_top_users that is not the blob the same object gives
\* before it
C10_Witness ==
    /\ hist.completed
    /\ hist.wc = "after_top_users"
    /\ text_contents.status = "built"
    /\ text_contents.value # Blob(loaded, Len(loaded), LoadedPlain)
    /\ LoadedPlain # {}

====
